---- MODULE Spec2Model ----
(***************************************************************************)
(* A model of the KCT retrieval pipeline: text normalisation and chunking  *)
(* (scripts/preprocess.py), index construction (scripts/embed_store.py),   *)
(* and initialisation, search and answering (scripts/query_bot.py, app.py).*)
(*                                                                         *)
(* A Python str is a sequence of one-character strings; a Python list is a *)
(* sequence; Python offsets are 0-based and are kept 0-based here.         *)
(***************************************************************************)
EXTENDS Integers, Sequences, FiniteSets, TLC

VARIABLES
    \* clean_text applied once and twice to an input text
    t_in, t_once, t_twice, t_pc,
    \* one call of smart_chunking: arguments, loop locals, position
    sc_content, sc_chunk_size, sc_overlap, sc_start, sc_chunks, sc_pc,
    \* one call of clean_and_chunk: arguments, returned pair, position
    cc_data, cc_chunk_size, cc_overlap, cc_chunks, cc_metadata, cc_pc,
    \* one call of create_conversational_prompt: arguments, prompt, position
    p_query, p_context, p_prompt, p_pc,
    \* the vectorstore directory and the three files in it
    dir_exists, chunks_file, index_file, metadata_file,
    \* the globals of query_bot.py
    model, index, metadata, chunks,
    \* the last call made: its name, arguments, what it met and its result
    last_call

vars == <<t_in, t_once, t_twice, t_pc,
          sc_content, sc_chunk_size, sc_overlap, sc_start, sc_chunks, sc_pc,
          cc_data, cc_chunk_size, cc_overlap, cc_chunks, cc_metadata, cc_pc,
          p_query, p_context, p_prompt, p_pc,
          dir_exists, chunks_file, index_file, metadata_file,
          model, index, metadata, chunks, last_call>>

textVars == <<t_in, t_once, t_twice, t_pc>>
chunkVars == <<sc_content, sc_chunk_size, sc_overlap, sc_start, sc_chunks, sc_pc>>
buildVars == <<cc_data, cc_chunk_size, cc_overlap, cc_chunks, cc_metadata, cc_pc>>
diskVars == <<dir_exists, chunks_file, index_file, metadata_file>>
memVars == <<model, index, metadata, chunks>>
systemVars == <<diskVars, memVars, last_call>>
promptVars == <<p_query, p_context, p_prompt, p_pc>>
pureVars == <<textVars, chunkVars, buildVars, promptVars>>

(***************************************************************************)
(* Python built-ins used by the code.                                      *)
(***************************************************************************)
SetMax(S) == CHOOSE x \in S : \A y \in S : y <= x
SetMin(S) == CHOOSE x \in S : \A y \in S : x <= y
IntMax(a, b) == IF a >= b THEN a ELSE b
IntMin(a, b) == IF a <= b THEN a ELSE b

\* s repeated n times, as 'A' * 50
Rep(c, n) == [i \in 1..n |-> c]

\* \s of the re module and the characters str.strip() removes
Whitespace == {" ", "\t", "\n"}
\* \w of the re module (the letters, digits and underscore the inputs use)
WordChars == {"a", "b", "A", "0", "_"}
\* the punctuation the allow-list of clean_text keeps
KeptPunctuation == {".", ",", "!", "?", "-", ":", ";", "(", ")"}
\* '.!?' of smart_chunking
SentenceEnd == {".", "!", "?"}

\* str.strip(): the text from its first to its last non-whitespace character
PyStrip(s) ==
    IF \A i \in 1..Len(s) : s[i] \in Whitespace THEN <<>>
    ELSE LET first == CHOOSE i \in 1..Len(s) :
                          /\ s[i] \notin Whitespace
                          /\ \A j \in 1..(i - 1) : s[j] \in Whitespace
             \* counted from the end: the last character is number 1
             back  == CHOOSE k \in 1..Len(s) :
                          /\ s[Len(s) + 1 - k] \notin Whitespace
                          /\ \A j \in 1..(k - 1) : s[Len(s) + 1 - j] \in Whitespace
         IN  SubSeq(s, first, Len(s) + 1 - back)

\* s[a:b] with Python's clamping and negative offsets
PySlice(s, a, b) ==
    LET n  == Len(s)
        lo == IF a < 0 THEN IntMax(a + n, 0) ELSE IntMin(a, n)
        hi == IF b < 0 THEN IntMax(b + n, 0) ELSE IntMin(b, n)
    IN  IF lo >= hi THEN <<>> ELSE SubSeq(s, lo + 1, hi)

\* s[i] is defined for -len(s) <= i < len(s); otherwise IndexError
PyIndexOk(s, i) == -Len(s) <= i /\ i < Len(s)
PyAt(s, i) == IF i >= 0 THEN s[i + 1] ELSE s[Len(s) + i + 1]

(***************************************************************************)
(* preprocess.py: clean_text                                               *)
(***************************************************************************)
\* re.sub(r'\s+', ' ', s): every maximal whitespace run becomes one space
CollapseWhitespace(s) ==
    LET keep == SelectSeq([i \in 1..Len(s) |-> i],
                          LAMBDA i : s[i] \notin Whitespace
                                     \/ i = 1
                                     \/ s[i - 1] \notin Whitespace)
    IN  [j \in 1..Len(keep) |->
            IF s[keep[j]] \in Whitespace THEN " " ELSE s[keep[j]]]

\* re.sub(r'[^\w\s\.\,\!\?\-\:\;\(\)]', '', s)
DropSpecial(s) ==
    SelectSeq(s, LAMBDA c : c \in WordChars \/ c \in Whitespace
                            \/ c \in KeptPunctuation)

clean_text(text) == DropSpecial(CollapseWhitespace(PyStrip(text)))

(***************************************************************************)
(* preprocess.py: smart_chunking.  One evaluation of the while body is     *)
(* smart_chunking_body; st = [start, chunks, pc] holds the locals, with    *)
(* pc = "loop" when the body is about to run, "done" after the return and  *)
(* "raised" when content[i] raised IndexError.                             *)
(***************************************************************************)
ScanWindow == 150
MinChunkLen == 100

\* the for loop over range(end, max(start + chunk_size - 150, start), -1):
\* the offsets it reads, from end downwards
ScanLow(start, chunk_size) == IntMax(start + chunk_size - ScanWindow, start)

\* the sentence ends the scan can read before an invalid offset stops it
ScanHits(content, start, chunk_size) ==
    LET end == start + chunk_size
    IN  {i \in IntMax(ScanLow(start, chunk_size) + 1, -Len(content))..end :
            PyAt(content, i) \in SentenceEnd}

\* the scan raises IndexError when it reaches an offset below -len(content)
\* without having found a sentence end
ScanRaises(content, start, chunk_size) ==
    /\ start + chunk_size < Len(content)
    /\ ScanHits(content, start, chunk_size) = {}
    /\ ScanLow(start, chunk_size) + 1 < -Len(content)

\* the value of end after lines 50-58
CutEnd(content, start, chunk_size) ==
    LET end == start + chunk_size
    IN  IF end < Len(content) /\ ScanHits(content, start, chunk_size) # {}
        THEN SetMax(ScanHits(content, start, chunk_size)) + 1
        ELSE end

\* a chunker that keeps every non-empty chunk
KeepChunk_AnyLength(chunk) == chunk # <<>>

\* lines 60-62: the chunk is kept when it is longer than 100 characters
KeepChunk(chunk) == chunk # <<>> /\ Len(chunk) > MinChunkLen

\* line 64
NextStart(end, overlap) == end - overlap

smart_chunking_body(content, chunk_size, overlap, st) ==
    IF ScanRaises(content, st.start, chunk_size)
    THEN [st EXCEPT !.pc = "raised"]
    ELSE
      LET end   == CutEnd(content, st.start, chunk_size)
          chunk == PyStrip(PySlice(content, st.start, end))
          start == NextStart(end, overlap)
      IN  [start  |-> start,
           chunks |-> IF KeepChunk(chunk) THEN Append(st.chunks, chunk)
                                          ELSE st.chunks,
           pc     |-> IF start >= Len(content) THEN "done" ELSE "loop"]

\* lines 46-49: the locals on entry, and the first test of the while condition
smart_chunking_entry(content) ==
    [start |-> 0, chunks |-> <<>>,
     pc |-> IF 0 < Len(content) THEN "loop" ELSE "done"]

RECURSIVE smart_chunking_run(_, _, _, _)
smart_chunking_run(content, chunk_size, overlap, st) ==
    IF st.pc # "loop" THEN st
    ELSE smart_chunking_run(content, chunk_size, overlap,
                            smart_chunking_body(content, chunk_size, overlap, st))

\* the whole call, for arguments on which the loop ends
smart_chunking(content, chunk_size, overlap) ==
    smart_chunking_run(content, chunk_size, overlap, smart_chunking_entry(content))

(***************************************************************************)
(* preprocess.py: clean_and_chunk.  An entry of data is a JSON value:      *)
(* mapping says whether it is a dict, keys which keys it has, text whether *)
(* its "content" is a str.                                                 *)
(***************************************************************************)
SkipLen == 30
PreviewLen == 150
DefaultUrl == "https://kct.ac.in"
DefaultSection == "General"

\* entry.get(key, default) raises AttributeError on a value that is no dict
EntryRaises(entry) == ~entry.mapping
EntryContent(entry) == IF "content" \in entry.keys THEN entry.content ELSE <<>>
EntryUrl(entry) == IF "url" \in entry.keys THEN entry.url ELSE DefaultUrl
EntrySection(entry) ==
    IF "section" \in entry.keys THEN entry.section ELSE DefaultSection
\* clean_text(x) raises on an x that is no str (x.strip)
ContentRaises(entry) == "content" \in entry.keys /\ ~entry.text

\* line 94
OriginalContent(content) ==
    IF Len(content) > PreviewLen
    THEN SubSeq(content, 1, PreviewLen) \o <<".", ".", ".">>
    ELSE content

\* metadata that records the length of the record's content, not the chunk's
ChunkMetadata_ContentLength(chunk, content, url, section, i) ==
    [url |-> url, section |-> section, content_length |-> Len(content),
     original_content |-> OriginalContent(content), source_entry |-> i]

\* lines 90-96
ChunkMetadata(chunk, content, url, section, i) ==
    [url |-> url, section |-> section, content_length |-> Len(chunk),
     original_content |-> OriginalContent(content), source_entry |-> i]

\* lines 77-99 for entry number i: the chunks and metadata it appends
ProcessEntry(entry, i, chunk_size, overlap) ==
    LET nothing == [chunks |-> <<>>, metadata |-> <<>>]
    IN  IF EntryRaises(entry) \/ ContentRaises(entry) THEN nothing
        ELSE
          LET content == clean_text(EntryContent(entry))
          IN  IF Len(content) < SkipLen THEN nothing
              ELSE
                LET st == smart_chunking(content, chunk_size, overlap)
                IN  IF st.pc = "raised" THEN nothing
                    ELSE [chunks   |-> st.chunks,
                          metadata |->
                            [k \in 1..Len(st.chunks) |->
                                ChunkMetadata(st.chunks[k], content,
                                    EntryUrl(entry), EntrySection(entry), i)]]

RECURSIVE clean_and_chunk_from(_, _, _, _, _)
\* a loop that a failing entry ends
clean_and_chunk_from_Aborting(data, chunk_size, overlap, i, acc) ==
    IF i >= Len(data) THEN acc
    ELSE IF EntryRaises(data[i + 1]) \/ ContentRaises(data[i + 1]) THEN acc
    ELSE LET got == ProcessEntry(data[i + 1], i, chunk_size, overlap)
         IN  clean_and_chunk_from(data, chunk_size, overlap, i + 1,
                 [chunks   |-> acc.chunks \o got.chunks,
                  metadata |-> acc.metadata \o got.metadata])

\* lines 72-101: the loop over the entries, from entry number i
clean_and_chunk_from(data, chunk_size, overlap, i, acc) ==
    IF i >= Len(data) THEN acc
    ELSE LET got == ProcessEntry(data[i + 1], i, chunk_size, overlap)
         IN  clean_and_chunk_from(data, chunk_size, overlap, i + 1,
                 [chunks   |-> acc.chunks \o got.chunks,
                  metadata |-> acc.metadata \o got.metadata])

clean_and_chunk(data, chunk_size, overlap) ==
    clean_and_chunk_from(data, chunk_size, overlap, 0,
                         [chunks |-> <<>>, metadata |-> <<>>])

(***************************************************************************)
(* The files of vectorstore/ and the globals of query_bot.py.              *)
(***************************************************************************)
NoFile == [exists |-> FALSE, data |-> <<>>]
File(data) == [exists |-> TRUE, data |-> data]

\* None, as the value of model and of index
None == "None"
ModelName == "all-MiniLM-L6-v2"
NoIndex == [none |-> TRUE, vectors |-> <<>>]
IsNone(idx) == idx.none

\* SentenceTransformer.encode: the embedding is a fixed function of the text;
\* the model keeps of a text what tells the texts of the inputs apart
Encode(text) == <<Len(text), IF text = <<>> THEN "" ELSE text[1]>>

\* embed_store.py lines 42-47: IndexFlatL2 over the embeddings of the chunks
BuildIndex(chunk_list) ==
    [none |-> FALSE, vectors |-> [i \in 1..Len(chunk_list) |-> Encode(chunk_list[i])]]

\* the globals as one value
Globals(m, i, md, c) == [model |-> m, index |-> i, metadata |-> md, chunks |-> c]
Disk(cf, xf, mf) == [chunks_file |-> cf, index_file |-> xf, metadata_file |-> mf]

(***************************************************************************)
(* preprocess.py __main__ and save_chunks.                                 *)
(***************************************************************************)
\* lines 122-136: the script exits before save_chunks when there is no data
\* or no chunk; otherwise save_chunks writes the chunk file
preprocess_main(data) ==
    LET r == clean_and_chunk(data, 600, 150)
    IN  IF data = <<>> \/ r.chunks = <<>>
        THEN [saved |-> FALSE, file |-> NoFile]
        ELSE [saved |-> TRUE,
              file |-> File([chunks |-> r.chunks, metadata |-> r.metadata,
                             total_chunks |-> Len(r.chunks)])]

(***************************************************************************)
(* embed_store.py: create_enhanced_index.  fault names the step that       *)
(* raises in this call ("none" when every step succeeds).                  *)
(***************************************************************************)
IndexFaults == {"none", "read", "model", "write_index", "write_metadata"}

create_enhanced_index(disk, fault) ==
    LET failed == [disk |-> disk, ret |-> FALSE]
    IN  IF ~disk.chunks_file.exists THEN failed
        ELSE IF fault = "read" THEN failed
        ELSE IF Len(disk.chunks_file.data.chunks) = 0 THEN failed
        ELSE IF fault \in {"model", "write_index"} THEN failed
        ELSE
          LET d1 == [disk EXCEPT !.index_file =
                        File(BuildIndex(disk.chunks_file.data.chunks))]
          IN  IF fault = "write_metadata" THEN [disk |-> d1, ret |-> FALSE]
              ELSE [disk |-> [d1 EXCEPT !.metadata_file =
                                  File(disk.chunks_file.data.metadata)],
                    ret |-> TRUE]

(***************************************************************************)
(* query_bot.py: initialize_system.  fault names the step that raises.     *)
(***************************************************************************)
InitFaults == {"none", "model", "index", "metadata", "chunks"}

initialize_system(g, disk, fault) ==
    IF fault = "model" THEN [g |-> g, ret |-> FALSE]
    ELSE
      LET g1 == [g EXCEPT !.model = ModelName]
      IN  IF ~disk.index_file.exists \/ fault = "index"
          THEN [g |-> g1, ret |-> FALSE]
          ELSE
            LET g2 == [g1 EXCEPT !.index = disk.index_file.data]
            IN  IF disk.metadata_file.exists /\ fault = "metadata"
                THEN [g |-> g2, ret |-> FALSE]
                ELSE
                  LET g3 == IF disk.metadata_file.exists
                            THEN [g2 EXCEPT !.metadata = disk.metadata_file.data]
                            ELSE g2
                  IN  IF disk.chunks_file.exists /\ fault = "chunks"
                      THEN [g |-> g3, ret |-> FALSE]
                      ELSE
                        [g |-> IF disk.chunks_file.exists
                               THEN [g3 EXCEPT !.chunks = disk.chunks_file.data.chunks]
                               ELSE g3,
                         ret |-> TRUE]

\* an initialisation at every call
LazyInit_Always(g, disk, fault) == initialize_system(g, disk, fault).g

\* "if model is None or index is None: initialize_system()"
LazyInit(g, disk, fault) ==
    IF g.model = None \/ IsNone(g.index)
    THEN initialize_system(g, disk, fault).g
    ELSE g

(***************************************************************************)
(* query_bot.py: enhanced_semantic_search.                                 *)
(***************************************************************************)
\* str.lower() on the letters the queries use
Lower(c) ==
    CASE c = "K" -> "k" [] c = "C" -> "c" [] c = "T" -> "t" [] OTHER -> c
LowerText(t) == [i \in 1..Len(t) |-> Lower(t[i])]

\* "x in y" on str
Contains(t, word) ==
    \E k \in 0..(Len(t) - Len(word)) : \A j \in 1..Len(word) : t[k + j] = word[j]

\* line 72, lower-cased as line 75 does
KctKeywords ==
    { <<"k", "c", "t">>,
      <<"k", "u", "m", "a", "r", "a", "g", "u", "r", "u">>,
      <<"c", "o", "l", "l", "e", "g", "e">>,
      <<"t", "e", "c", "h", "n", "o", "l", "o", "g", "y">> }
AnchorPhrase ==
    <<"K", "u", "m", "a", "r", "a", "g", "u", "r", "u", " ", "C", "o", "l", "l", "e", "g", "e", " ", "o", "f", " ", "T", "e", "c", "h", "n", "o", "l", "o", "g", "y", " ">>

\* lines 70-76: the text that is encoded for a query
AugmentQuery(query) ==
    LET q == CollapseWhitespace(PyStrip(query))
    IN  IF \E w \in KctKeywords : Contains(LowerText(q), w)
        THEN q
        ELSE AnchorPhrase \o q

\* distances are in hundredths; relevance scores in millionths
DistUnit == 100
RelevanceUnit == 1000000
\* the distance faiss reports for a missing neighbour (the largest float)
FloatMax == 1000000000

\* line 89: 1 / (1 + distance)
RelevanceScore(distance) == (RelevanceUnit * DistUnit) \div (DistUnit + distance)

\* line 80
SearchK(k, chunk_list) == IntMin(k * 2, Len(chunk_list))

\* list[i] for i >= -len(list)
ListAt(list, i) == IF i >= 0 THEN list[i + 1] ELSE list[Len(list) + i + 1]

\* line 85
OrdinalAccepted(idx, chunk_list, metadata_list) ==
    idx < Len(chunk_list) /\ idx < Len(metadata_list)

\* lines 86-96: the result built for one (distance, idx) pair
SearchResult(distance, idx, chunk_list, metadata_list) ==
    LET md == ListAt(metadata_list, idx)
    IN  [text |-> ListAt(chunk_list, idx),
         relevance_score |-> RelevanceScore(distance),
         distance |-> distance,
         url |-> md.url, section |-> md.section,
         content_length |-> md.content_length,
         original_content |-> md.original_content,
         source_entry |-> md.source_entry]

\* lines 83-96: pairs is the sequence of <<idx, distance>> faiss returned
RECURSIVE CollectResults(_, _, _)
CollectResults(pairs, chunk_list, metadata_list) ==
    IF pairs = <<>> THEN <<>>
    ELSE LET idx  == Head(pairs)[1]
             rest == CollectResults(Tail(pairs), chunk_list, metadata_list)
         IN  IF OrdinalAccepted(idx, chunk_list, metadata_list)
             THEN <<SearchResult(Head(pairs)[2], idx, chunk_list, metadata_list)>>
                      \o rest
             ELSE rest

\* list.sort(key=relevance_score, reverse=True): a stable sort, so results
\* of equal score keep their order
RECURSIVE InsertByRelevance(_, _)
InsertByRelevance(sorted, r) ==
    IF sorted = <<>> THEN <<r>>
    ELSE IF Head(sorted).relevance_score >= r.relevance_score
         THEN <<Head(sorted)>> \o InsertByRelevance(Tail(sorted), r)
         ELSE <<r>> \o sorted

RECURSIVE SortByRelevanceFrom(_, _)
SortByRelevanceFrom(results, sorted) ==
    IF results = <<>> THEN sorted
    ELSE SortByRelevanceFrom(Tail(results), InsertByRelevance(sorted, Head(results)))

SortByRelevance_Unsorted(results) == results

\* line 98
SortByRelevance(results) == SortByRelevanceFrom(results, <<>>)

\* line 99: results[:k]
TopK(results, k) == PySlice(results, 0, k)

\* what faiss can answer to index.search(x, n) on an index of ntotal
\* vectors: n <<idx, distance>> pairs, the first min(n, ntotal) for distinct
\* vectors of the index, the others idx -1 at distance FloatMax
DistVals == {10, 250}
RECURSIVE Neighbours(_, _)
Neighbours(ordinals, n) ==
    IF n = 0 \/ ordinals = {} THEN {<<>>}
    ELSE UNION { { <<<<o, d>>>> \o rest : rest \in Neighbours(ordinals \ {o}, n - 1) }
                 : o \in ordinals, d \in DistVals }

IndexSearch(idx, n) ==
    LET ntotal  == Len(idx.vectors)
        missing == IF n > ntotal THEN n - ntotal ELSE 0
    IN  { found \o [i \in 1..missing |-> <<-1, FloatMax>>]
            : found \in Neighbours(0..(ntotal - 1), n) }

\* the outcomes of lines 78-81 for the globals g: encode or search raises
\* (always, on a model or an index that is None), or faiss answers
SearchOutcomes(g, k) ==
    {[step |-> "encode", pairs |-> <<>>], [step |-> "index_search", pairs |-> <<>>]}
    \cup (IF g.model = None \/ IsNone(g.index) THEN {}
          ELSE {[step |-> "none", pairs |-> p]
                    : p \in IndexSearch(g.index, SearchK(k, g.chunks))})

SearchExcept_Propagates(outcome) == [raised |-> TRUE, ret |-> <<>>]

\* lines 101-103: the except clause turns an exception into []
SearchExcept(outcome) == [raised |-> FALSE, ret |-> <<>>]

\* lines 65-103, after the lazy initialisation, for one outcome of the
\* external calls
SearchBody(g, k, outcome) ==
    IF g.chunks = <<>> \/ g.metadata = <<>> THEN [raised |-> FALSE, ret |-> <<>>]
    ELSE IF outcome.step # "none" THEN SearchExcept(outcome)
    ELSE [raised |-> FALSE,
          ret |-> TopK(SortByRelevance(
                           CollectResults(outcome.pairs, g.chunks, g.metadata)), k)]

\* the search reaches its try block when chunks and metadata are not empty
ReachesTry(g) == g.chunks # <<>> /\ g.metadata # <<>>

\* lines 58-103
enhanced_semantic_search(g, disk, k, fault, outcome) ==
    LET g1 == LazyInit(g, disk, fault)
        r  == SearchBody(g1, k, outcome)
    IN  [g |-> g1, raised |-> r.raised, ret |-> r.ret]

(***************************************************************************)
(* query_bot.py: generate_response_without_sources, query_knowledge_base.  *)
(* A reply of the generator is a sequence of tokens: single characters and *)
(* the literal words the post-filter looks for.                            *)
(***************************************************************************)
BoldSources == "**Sources"
Bold == "**"
SourcesUsed == "Sources Used:"
SourceColon == "Source:"
Newline == "\n"

\* where the lookahead (?=\n\n|\Z) first holds at or after token j: the last
\* token of the match
BlockEnd(toks, j) ==
    CHOOSE e \in j..Len(toks) :
        /\ e = Len(toks) \/ (e + 2 <= Len(toks) /\ toks[e + 1] = Newline
                                                /\ toks[e + 2] = Newline)
        /\ \A x \in j..(e - 1) :
              ~(x + 2 <= Len(toks) /\ toks[x + 1] = Newline /\ toks[x + 2] = Newline)

\* "**Sources" begins at token i: as one token, or as "**" before
\* "Sources Used:"; the value is the token after the literal, 0 for no match
AfterBoldSources(toks, i) ==
    IF toks[i] = BoldSources THEN i + 1
    ELSE IF toks[i] = Bold /\ i < Len(toks) /\ toks[i + 1] = SourcesUsed THEN i + 2
    ELSE 0

\* the tokens in which the next "**" can begin
ClosingBold(toks, from) ==
    {j \in from..Len(toks) : toks[j] \in {Bold, BoldSources}}

\* line 177: re.sub(r'\*\*Sources.*?\*\*.*?(?=\n\n|\Z)', '', answer, DOTALL)
RECURSIVE RemoveBoldSources(_, _)
RemoveBoldSources(toks, i) ==
    IF i > Len(toks) THEN <<>>
    ELSE LET from == AfterBoldSources(toks, i)
         IN  IF from # 0 /\ ClosingBold(toks, from) # {}
             THEN RemoveBoldSources(toks,
                      BlockEnd(toks, SetMin(ClosingBold(toks, from))) + 1)
             ELSE <<toks[i]>> \o RemoveBoldSources(toks, i + 1)

\* line 178: re.sub(r'Sources Used:.*?(?=\n\n|\Z)', '', answer, DOTALL)
RECURSIVE RemoveSourcesUsed(_, _)
RemoveSourcesUsed(toks, i) ==
    IF i > Len(toks) THEN <<>>
    ELSE IF toks[i] = SourcesUsed
         THEN RemoveSourcesUsed(toks, BlockEnd(toks, i) + 1)
         ELSE <<toks[i]>> \o RemoveSourcesUsed(toks, i + 1)

\* the tokens of the line of token i that follow it
RestOfLine(toks, i) ==
    {j \in (i + 1)..Len(toks) : \A x \in (i + 1)..j : toks[x] # Newline}

\* a markdown link begins at token i: "[" ... "](" ... ")" on one line; the
\* value is its last token, 0 for no match
LinkEnd(toks, i) ==
    IF toks[i] # "[" THEN 0
    ELSE LET line   == RestOfLine(toks, i)
             middle == {j \in line : toks[j] = "]" /\ (j + 1) \in line
                                                   /\ toks[j + 1] = "("}
         IN  IF middle = {} THEN 0
             ELSE LET close == {m \in line : m > SetMin(middle) + 1 /\ toks[m] = ")"}
                  IN  IF close = {} THEN 0 ELSE SetMin(close)

\* line 179: re.sub(r'\[.*?\]\(.*?\)', '', answer)
RECURSIVE RemoveLinks(_, _)
RemoveLinks(toks, i) ==
    IF i > Len(toks) THEN <<>>
    ELSE IF LinkEnd(toks, i) # 0 THEN RemoveLinks(toks, LinkEnd(toks, i) + 1)
         ELSE <<toks[i]>> \o RemoveLinks(toks, i + 1)

\* line 180: re.sub(r'Source:.*?\n', '', answer)
RECURSIVE RemoveSourceLines(_, _)
RemoveSourceLines(toks, i) ==
    IF i > Len(toks) THEN <<>>
    ELSE LET ends == {j \in (i + 1)..Len(toks) : toks[j] = Newline}
         IN  IF toks[i] = SourceColon /\ ends # {}
             THEN RemoveSourceLines(toks, SetMin(ends) + 1)
             ELSE <<toks[i]>> \o RemoveSourceLines(toks, i + 1)

\* lines 174-182
PostFilter(content) ==
    PyStrip(RemoveSourceLines(
                RemoveLinks(
                    RemoveSourcesUsed(
                        RemoveBoldSources(PyStrip(content), 1), 1), 1), 1))

\* the fixed answers, each one token
NoContextAnswer == <<"I couldn't find relevant information about that topic.">>
GenerateFallback == <<"Hello! ... Please feel free to ask me about programs.">>
QueryFallback == <<"Hello! ... What would you like to know about KCT today?">>

\* lines 108-111: the chunks the prompt is built from
RelevanceThreshold == 300000
RelevantChunks(context_chunks) ==
    LET relevant == SelectSeq(context_chunks,
                        LAMBDA c : c.relevance_score > RelevanceThreshold)
    IN  IF relevant = <<>> THEN PySlice(context_chunks, 0, 3) ELSE relevant

\* lines 113-117: the chunks whose text enters the prompt
PromptChunks(context_chunks) == PySlice(RelevantChunks(context_chunks), 0, 3)

\* lines 105-140: the prompt is the fixed wording around the question and
\* the "Information i: text" parts, or the general sentence of line 119
\* when there is no part
create_conversational_prompt(query, context_chunks) ==
    LET used == PromptChunks(context_chunks)
    IN  [question |-> query,
         information |-> [i \in 1..Len(used) |-> used[i].text],
         general |-> RelevantChunks(context_chunks) = <<>>]

\* lines 184-192: the except clause of generate_response_without_sources
GenerateExcept(gen) == [raised |-> FALSE, ret |-> GenerateFallback]

\* lines 150-182: gen is what the generator does, [kind |-> "raises"],
\* [kind |-> "null"] (a reply without content) or [kind |-> "text", content]
GenerateAnswer(context_chunks, gen) ==
    IF context_chunks = <<>> THEN [raised |-> FALSE, ret |-> NoContextAnswer]
    ELSE IF gen.kind # "text" THEN GenerateExcept(gen)
    ELSE [raised |-> FALSE, ret |-> PostFilter(gen.content)]

\* the default k of enhanced_semantic_search
DefaultK == 5

\* lines 194-211, for one fault of the initialisations, one outcome of the
\* search and one of the generator: three lazy initialisations can run
\* (lines 197-198, 145-146 and 62-63)
query_knowledge_base(g, disk, fault, outcome, gen) ==
    LET g1 == LazyInit(g, disk, fault)
        g2 == IF g1.model = None THEN initialize_system(g1, disk, fault).g ELSE g1
        g3 == LazyInit(g2, disk, fault)
        found  == SearchBody(g3, DefaultK, outcome)
        answer == GenerateAnswer(found.ret, gen)
    IN  [g |-> g3, context |-> found.ret,
         prompt_chunks |-> PromptChunks(found.ret),
         raised |-> answer.raised, ret |-> answer.ret]

(***************************************************************************)
(* app.py: check_and_initialize.  import_fails: importing scripts.query_bot*)
(* raises (the module builds its API client when it is imported).          *)
(***************************************************************************)
check_and_initialize(g, disk, dir, fault, import_fails) ==
    IF dir THEN [g |-> g, ret |-> TRUE, reported |-> "nothing"]
    ELSE IF import_fails THEN [g |-> g, ret |-> FALSE, reported |-> "error"]
    ELSE [g |-> initialize_system(g, disk, fault).g, ret |-> TRUE,
          reported |-> "success"]

(***************************************************************************)
(* Inputs.                                                                 *)
(***************************************************************************)
MaxTextLen == 4
TextAlphabet == {"a", " ", "\t", "#", "."}

RECURSIVE SeqsUpTo(_, _)
SeqsUpTo(S, n) ==
    IF n = 0 THEN {<<>>}
    ELSE LET shorter == SeqsUpTo(S, n - 1)
         IN  shorter \cup {Append(s, c) : s \in shorter, c \in S}

Texts == SeqsUpTo(TextAlphabet, MaxTextLen)

\* a text of n letters with the characters of marks (offset -> character) set
Marked(n, marks) ==
    [i \in 1..n |-> IF (i - 1) \in DOMAIN marks THEN marks[i - 1] ELSE "a"]

MaxMarks == 2
MaxChunks == 8
MarkChars == {".", " "}

\* the texts of length n in lengths with at most MaxMarks characters, at
\* offsets of offsets, set to a sentence end or a space
MarkedTexts(lengths, offsets) ==
    {Marked(n, f) :
        n \in lengths,
        f \in UNION {[m -> MarkChars] :
                        m \in {x \in SUBSET offsets : Cardinality(x) <= MaxMarks}}}

\* calls with the default arguments, marks where the default windows end
DefaultCalls ==
    {<<c, <<600, 150>>>> : c \in MarkedTexts({50, 700, 1100}, {450, 599, 600})}

\* calls with small windows, some with overlap >= chunk_size
SmallArgs == {<<120, 10>>, <<120, 0>>, <<110, 110>>, <<100, 130>>}
SmallCalls ==
    {<<c, a>> : c \in MarkedTexts({50, 130, 400}, {30, 110, 119, 120}),
                a \in SmallArgs}

ChunkCalls == DefaultCalls \cup SmallCalls

\* records of a data file
Dict(content, url, section, keys) ==
    [mapping |-> TRUE, keys |-> keys, text |-> TRUE,
     content |-> content, url |-> url, section |-> section]
NotADict ==
    [mapping |-> FALSE, keys |-> {}, text |-> FALSE,
     content |-> <<>>, url |-> "", section |-> ""]
NullContent ==
    [mapping |-> TRUE, keys |-> {"content", "url"}, text |-> FALSE,
     content |-> <<>>, url |-> "https://x", section |-> ""]
AllKeys == {"content", "url", "section"}

MaxRecords == 2
RecordPool ==
    { Dict(Rep("A", 50), "https://x", "S", AllKeys),
      Dict(Rep("a", 10) \o <<"#", "#">> \o Rep("a", 19), "https://t", "T", AllKeys),
      Dict(<<" ">> \o Rep("a", 60) \o <<" ", "\t", "#">> \o Rep("a", 69),
           "https://l", "L", {"content", "section"}),
      Dict(Rep("b", 449) \o <<".", " ">> \o Rep("b", 148) \o <<" ">> \o Rep("b", 200),
           "https://m", "M", {"content", "url"}),
      Dict(Rep("b", 130), "https://n", "N", {"url", "section"}),
      NotADict,
      NullContent }
BuildArgs == {<<600, 150>>, <<120, 1>>}

\* the data files of the served corpus
DataSets ==
    { <<>>,
      <<Dict(Rep("A", 50), "https://x", "S", AllKeys)>>,
      <<Dict(Rep("b", 110), "https://one", "One", AllKeys)>>,
      <<Dict(Rep("a", 101), "https://p", "P", AllKeys),
        Dict(Rep("b", 102), "https://q", "Q", AllKeys),
        Dict(Rep("A", 103), "https://r", "R", AllKeys)>> }

Queries ==
    { <<"h", "o", "s", "t", "e", "l">>,
      <<" ", "K", "C", "T", " ", " ", "f", "e", "e", "s">> }
MaxK == 2

\* the results of a default search (k = 5) on a corpus of five chunks:
\* the index answers the first n ordinals at any of the distances
PromptCorpus ==
    clean_and_chunk(<<Dict(Rep("a", 101), "https://p", "P", AllKeys),
                      Dict(Rep("b", 102), "https://q", "Q", AllKeys),
                      Dict(Rep("A", 103), "https://r", "R", AllKeys),
                      Dict(Rep("0", 104), "https://s", "S", AllKeys),
                      Dict(Rep("_", 105), "https://t", "T", AllKeys)>>, 600, 150)
PromptPairs ==
    UNION { { [i \in 1..n |-> <<i - 1, d[i]>>] : d \in [1..n -> DistVals] }
            : n \in 0..DefaultK }
PromptContexts ==
    { TopK(SortByRelevance(CollectResults(pairs, PromptCorpus.chunks,
                                          PromptCorpus.metadata)), DefaultK)
        : pairs \in PromptPairs }

ReplyAlphabet ==
    {"a", " ", Newline, "[", "]", "(", ")", Bold, BoldSources, SourcesUsed,
     SourceColon}
SampleReplies ==
    { <<>>,
      <<"a", " ", "[", "a", "]", "(", "a", ")">>,
      <<"[", "a", "]", "(", "a", ")">>,
      <<"a", Newline, SourceColon, "a", Newline>>,
      <<BoldSources, Bold, "a">>,
      <<"a", Newline, Newline, SourcesUsed, "a">> }
Replies == {<<t>> : t \in ReplyAlphabet} \cup SampleReplies
GenOutcomes ==
    {[kind |-> "raises", content |-> <<>>], [kind |-> "null", content |-> <<>>]}
    \cup {[kind |-> "text", content |-> c] : c \in Replies}

(***************************************************************************)
(* SpecText: clean_text applied to a text, then to its own result.         *)
(***************************************************************************)
InitText ==
    /\ t_in \in Texts
    /\ t_once = <<>>
    /\ t_twice = <<>>
    /\ t_pc = "input"

CleanOnce ==
    /\ t_pc = "input"
    /\ t_once' = clean_text(t_in)
    /\ t_pc' = "once"
    /\ UNCHANGED <<t_in, t_twice>>

CleanTwice ==
    /\ t_pc = "once"
    /\ t_twice' = clean_text(t_once)
    /\ t_pc' = "twice"
    /\ UNCHANGED <<t_in, t_once>>

IdleText ==
    /\ t_in = <<>> /\ t_once = <<>> /\ t_twice = <<>> /\ t_pc = "idle"

(***************************************************************************)
(* SpecChunk: one call of smart_chunking, one loop iteration per step.     *)
(***************************************************************************)
InitChunk ==
    /\ \E call \in ChunkCalls :
          /\ sc_content = call[1]
          /\ sc_chunk_size = call[2][1]
          /\ sc_overlap = call[2][2]
    /\ sc_start = smart_chunking_entry(sc_content).start
    /\ sc_chunks = smart_chunking_entry(sc_content).chunks
    /\ sc_pc = smart_chunking_entry(sc_content).pc

\* An endless loop that keeps a chunk on every iteration grows chunks without
\* limit; the model follows it up to MaxChunks kept chunks.
ChunkIteration ==
    /\ sc_pc = "loop"
    /\ Len(sc_chunks) < MaxChunks
    /\ \E st \in {smart_chunking_body(sc_content, sc_chunk_size, sc_overlap,
                     [start |-> sc_start, chunks |-> sc_chunks, pc |-> sc_pc])} :
           /\ sc_start' = st.start
           /\ sc_chunks' = st.chunks
           /\ sc_pc' = st.pc
    /\ UNCHANGED <<sc_content, sc_chunk_size, sc_overlap>>

IdleChunk ==
    /\ sc_content = <<>> /\ sc_chunk_size = 0 /\ sc_overlap = 0
    /\ sc_start = 0 /\ sc_chunks = <<>> /\ sc_pc = "idle"

(***************************************************************************)
(* SpecBuild: one call of clean_and_chunk on a list of records.            *)
(***************************************************************************)
InitBuild ==
    /\ cc_data \in SeqsUpTo(RecordPool, MaxRecords)
    /\ \E a \in BuildArgs : cc_chunk_size = a[1] /\ cc_overlap = a[2]
    /\ cc_chunks = <<>>
    /\ cc_metadata = <<>>
    /\ cc_pc = "call"

CleanAndChunk ==
    /\ cc_pc = "call"
    /\ LET r == clean_and_chunk(cc_data, cc_chunk_size, cc_overlap)
       IN  /\ cc_chunks' = r.chunks
           /\ cc_metadata' = r.metadata
    /\ cc_pc' = "returned"
    /\ UNCHANGED <<cc_data, cc_chunk_size, cc_overlap>>

IdleBuild ==
    /\ cc_data = <<>> /\ cc_chunk_size = 0 /\ cc_overlap = 0
    /\ cc_chunks = <<>> /\ cc_metadata = <<>> /\ cc_pc = "idle"

(***************************************************************************)
(* SpecPrompt: one call of create_conversational_prompt on the results of  *)
(* a search.                                                               *)
(***************************************************************************)
InitPrompt ==
    /\ p_query \in Queries
    /\ p_context \in PromptContexts
    /\ p_prompt = [question |-> <<>>, information |-> <<>>, general |-> FALSE]
    /\ p_pc = "call"

CreateConversationalPrompt ==
    /\ p_pc = "call"
    /\ p_prompt' = create_conversational_prompt(p_query, p_context)
    /\ p_pc' = "done"
    /\ UNCHANGED <<p_query, p_context>>

IdlePrompt ==
    /\ p_query = <<>> /\ p_context = <<>>
    /\ p_prompt = [question |-> <<>>, information |-> <<>>, general |-> FALSE]
    /\ p_pc = "idle"

(***************************************************************************)
(* Spec: the build scripts, the initialisation and the serving calls, on   *)
(* one vectorstore directory and one serving process.                      *)
(***************************************************************************)
CurrentGlobals == Globals(model, index, metadata, chunks)
CurrentDisk == Disk(chunks_file, index_file, metadata_file)

SetGlobals(g) ==
    /\ model' = g.model
    /\ index' = g.index
    /\ metadata' = g.metadata
    /\ chunks' = g.chunks

\* one caller at a time: last_call is the call that has just finished, or
\* [op |-> "idle"] when its caller has taken the result
Idle == last_call = [op |-> "idle"]

InitSystem ==
    /\ dir_exists = FALSE
    /\ chunks_file = NoFile
    /\ index_file = NoFile
    /\ metadata_file = NoFile
    /\ model = None
    /\ index = NoIndex
    /\ metadata = <<>>
    /\ chunks = <<>>
    /\ last_call = [op |-> "idle"]

IdleSystem == InitSystem

\* python scripts/preprocess.py
Preprocess ==
    /\ Idle
    /\ \E data \in DataSets :
        LET r == preprocess_main(data)
        IN  /\ chunks_file' = IF r.saved THEN r.file ELSE chunks_file
            /\ dir_exists' = (dir_exists \/ r.saved)
            /\ last_call' = [op |-> "preprocess", saved |-> r.saved]
            /\ UNCHANGED <<index_file, metadata_file, memVars, pureVars>>

\* python scripts/embed_store.py
CreateEnhancedIndex ==
    /\ Idle
    /\ \E fault \in IndexFaults :
        LET r == create_enhanced_index(CurrentDisk, fault)
        IN  /\ index_file' = r.disk.index_file
            /\ metadata_file' = r.disk.metadata_file
            /\ last_call' = [op |-> "create_enhanced_index", fault |-> fault,
                              ret |-> r.ret]
            /\ UNCHANGED <<dir_exists, chunks_file, memVars, pureVars>>

InitializeSystem ==
    /\ Idle
    /\ \E fault \in InitFaults :
        LET r == initialize_system(CurrentGlobals, CurrentDisk, fault)
        IN  /\ SetGlobals(r.g)
            /\ last_call' = [op |-> "initialize_system", fault |-> fault,
                              ret |-> r.ret]
            /\ UNCHANGED <<diskVars, pureVars>>

CheckAndInitialize ==
    /\ Idle
    /\ \E fault \in InitFaults, import_fails \in BOOLEAN :
        LET r == check_and_initialize(CurrentGlobals, CurrentDisk, dir_exists,
                                      fault, import_fails)
        IN  /\ SetGlobals(r.g)
            /\ last_call' = [op |-> "check_and_initialize", fault |-> fault,
                              dir_existed |-> dir_exists,
                              ret |-> r.ret, reported |-> r.reported]
            /\ UNCHANGED <<diskVars, pureVars>>

\* the faults a call can meet: none when it does not initialise
FaultsFor(g) == IF g.model = None \/ IsNone(g.index) THEN InitFaults ELSE {"none"}

\* what the external calls of the try block can do: nothing when the search
\* returns before it
NotReached == [step |-> "not reached", pairs |-> <<>>]
OutcomesFor(g, k) == IF ReachesTry(g) THEN SearchOutcomes(g, k) ELSE {NotReached}

EnhancedSemanticSearch ==
    /\ Idle
    /\ \E query \in Queries, k \in 0..MaxK, fault \in FaultsFor(CurrentGlobals) :
        \E outcome \in OutcomesFor(LazyInit(CurrentGlobals, CurrentDisk, fault), k) :
            LET r == enhanced_semantic_search(CurrentGlobals, CurrentDisk,
                                              k, fault, outcome)
            IN  /\ SetGlobals(r.g)
                /\ last_call' =
                      [op |-> "enhanced_semantic_search",
                       k |-> k,
                       encoded |-> IF outcome.step \in {"none", "index_search"}
                                   THEN AugmentQuery(query) ELSE <<>>,
                       index_was_none |-> IsNone(index),
                       init |-> IF model # None /\ ~IsNone(index) THEN "not run"
                                ELSE IF initialize_system(CurrentGlobals,
                                            CurrentDisk, fault).ret
                                     THEN "returned True"
                                     ELSE "returned False",
                       fault |-> fault,
                       step |-> outcome.step,
                       pairs |-> outcome.pairs,
                       raised |-> r.raised,
                       ret |-> r.ret]
                /\ UNCHANGED <<diskVars, pureVars>>

\* the generator is called when the search found something
GenOutcomesFor(context) ==
    IF context = <<>> THEN {[kind |-> "not called", content |-> <<>>]}
    ELSE GenOutcomes

QueryKnowledgeBase ==
    /\ Idle
    /\ \E query \in Queries, fault \in FaultsFor(CurrentGlobals) :
        \E outcome \in OutcomesFor(query_knowledge_base(CurrentGlobals,
                                        CurrentDisk, fault, NotReached,
                                        [kind |-> "raises"]).g, DefaultK) :
            \E gen \in GenOutcomesFor(query_knowledge_base(CurrentGlobals,
                                          CurrentDisk, fault, outcome,
                                          [kind |-> "raises"]).context) :
                LET r == query_knowledge_base(CurrentGlobals, CurrentDisk,
                                              fault, outcome, gen)
                IN  /\ SetGlobals(r.g)
                    /\ last_call' =
                          [op |-> "query_knowledge_base",
                           init |-> IF model # None /\ ~IsNone(index)
                                    THEN "not run" ELSE "run",
                           encoded |-> IF outcome.step \in {"none", "index_search"}
                                       THEN AugmentQuery(query) ELSE <<>>,
                           fault |-> fault,
                           step |-> outcome.step,
                           context |-> r.context,
                           prompt_chunks |-> r.prompt_chunks,
                           gen |-> gen,
                           raised |-> r.raised,
                           ret |-> r.ret]
                    /\ UNCHANGED <<diskVars, pureVars>>

\* the caller takes the result of the call
Return ==
    /\ ~Idle
    /\ last_call' = [op |-> "idle"]
    /\ UNCHANGED <<diskVars, memVars, pureVars>>

NextSystem ==
    \/ Preprocess
    \/ CreateEnhancedIndex
    \/ InitializeSystem
    \/ CheckAndInitialize
    \/ EnhancedSemanticSearch
    \/ QueryKnowledgeBase
    \/ Return

NextText == (CleanOnce \/ CleanTwice) /\ UNCHANGED <<chunkVars, buildVars, promptVars, systemVars>>
NextChunk == ChunkIteration /\ UNCHANGED <<textVars, buildVars, promptVars, systemVars>>
NextBuild == CleanAndChunk /\ UNCHANGED <<textVars, chunkVars, promptVars, systemVars>>
NextPrompt == CreateConversationalPrompt /\ UNCHANGED <<textVars, chunkVars, buildVars, systemVars>>

TextCalls == InitText /\ IdleChunk /\ IdleBuild /\ IdlePrompt /\ IdleSystem
SpecText == TextCalls /\ [][NextText]_vars

ChunkingCalls == IdleText /\ InitChunk /\ IdleBuild /\ IdlePrompt /\ IdleSystem
SpecChunk == ChunkingCalls /\ [][NextChunk]_vars

\* the interpreter keeps executing a loop whose condition holds
SpecChunkFair == SpecChunk /\ WF_vars(NextChunk)

BuildCalls == IdleText /\ IdleChunk /\ InitBuild /\ IdlePrompt /\ IdleSystem
SpecBuild == BuildCalls /\ [][NextBuild]_vars

SystemStart == IdleText /\ IdleChunk /\ IdleBuild /\ IdlePrompt /\ InitSystem

PromptCalls == IdleText /\ IdleChunk /\ IdleBuild /\ InitPrompt /\ IdleSystem
SpecPrompt == PromptCalls /\ [][NextPrompt]_vars
Spec == SystemStart /\ [][NextSystem]_vars

\* calls of smart_chunking on their own and calls made by clean_and_chunk
ChunkingOrBuildCalls ==
    /\ IdleText /\ IdlePrompt /\ IdleSystem
    /\ (InitChunk /\ IdleBuild) \/ (IdleChunk /\ InitBuild)
SpecChunkBuild == ChunkingOrBuildCalls /\ [][NextChunk \/ NextBuild]_vars

(***************************************************************************)
(* Properties.                                                             *)
(***************************************************************************)
\* c occurs in s as a run of consecutive characters
IsSubstring(c, s) ==
    \E k \in 0..(Len(s) - Len(c)) : \A j \in 1..Len(c) : s[k + j] = c[j]

\* c[-n:] and c[:n]
LastChars(c, n) == IF n = 0 THEN <<>> ELSE PySlice(c, -n, Len(c))
FirstChars(c, n) == PySlice(c, 0, n)

\* C1: clean_and_chunk returns as many metadata entries as chunks, and entry
\* i describes chunk i: its content_length is the chunk's length and its
\* source_entry is the position of a record whose normalised content the
\* chunk was cut from, also when other records were skipped or failed.
C1_MetadataAligned ==
    cc_pc = "returned" =>
        /\ Len(cc_chunks) = Len(cc_metadata)
        /\ \A i \in 1..Len(cc_chunks) :
              LET m == cc_metadata[i]
              IN  /\ m.content_length = Len(cc_chunks[i])
                  /\ m.source_entry \in 0..(Len(cc_data) - 1)
                  /\ LET entry == cc_data[m.source_entry + 1]
                     IN  /\ entry.mapping /\ entry.text
                         /\ "content" \in entry.keys
                         /\ IsSubstring(cc_chunks[i], clean_text(entry.content))

\* a build whose first record fails and whose second record gives two chunks
C1_Witness ==
    /\ cc_pc = "returned"
    /\ Len(cc_data) = 2
    /\ ~cc_data[1].mapping
    /\ Len(cc_chunks) >= 2
    /\ cc_metadata[2].source_entry = 1

\* C7: a call of smart_chunking with overlap >= chunk_size on a non-empty
\* content comes to an end.
C7_OverlapCallEnds ==
    (sc_overlap >= sc_chunk_size /\ sc_content # <<>> /\ sc_pc = "loop")
        => <>(sc_pc \in {"done", "raised"})

\* C8: when chunk_size > overlap >= 0 and the content is longer than
\* chunk_size, the last overlap characters of every returned chunk but the
\* last two are the first overlap characters of the chunk after it.
C8_ExactOverlap ==
    ( /\ sc_pc = "done"
      /\ sc_chunk_size > sc_overlap /\ sc_overlap >= 0
      /\ Len(sc_content) > sc_chunk_size )
        => \A i \in 1..(Len(sc_chunks) - 2) :
              LastChars(sc_chunks[i], sc_overlap)
                  = FirstChars(sc_chunks[i + 1], sc_overlap)

\* C9: every chunk smart_chunking keeps is trimmed and longer than 100
\* characters, in a call of its own and in a build; a record whose
\* normalised content has at most 100 characters has no chunk and no
\* metadata entry in the build.
C9_ChunksLongerThan100 ==
    /\ \A i \in 1..Len(sc_chunks) :
          Len(sc_chunks[i]) > 100 /\ PyStrip(sc_chunks[i]) = sc_chunks[i]
    /\ cc_pc = "returned" =>
          /\ \A i \in 1..Len(cc_chunks) :
                Len(cc_chunks[i]) > 100 /\ PyStrip(cc_chunks[i]) = cc_chunks[i]
          /\ Len(cc_chunks) = Len(cc_metadata)
          /\ \A r \in 1..Len(cc_data) :
                ( /\ cc_data[r].mapping /\ cc_data[r].text
                  /\ Len(clean_text(EntryContent(cc_data[r]))) <= 100 )
                    => \A i \in 1..Len(cc_metadata) :
                          cc_metadata[i].source_entry # r - 1

\* a build of the record of 50 'A' characters followed by a record that
\* gives chunks
C9_Witness ==
    /\ cc_pc = "returned"
    /\ Len(cc_data) = 2
    /\ cc_data[1].mapping /\ cc_data[1].content = Rep("A", 50)
    /\ Len(cc_chunks) >= 1

\* C10: clean_text applied to its own result returns it unchanged.
C10_Idempotent ==
    t_pc = "twice" => t_twice = t_once

(***************************************************************************)
(* The served system.                                                      *)
(***************************************************************************)
Searched == last_call.op = "enhanced_semantic_search"
Queried == last_call.op = "query_knowledge_base"
Initialized == last_call.op = "initialize_system"
Checked == last_call.op = "check_and_initialize"

\* the index answered pairs[p] for a chunk the search accepts
AcceptedPair(pairs, p) == OrdinalAccepted(pairs[p][1], chunks, metadata)

\* C2: a search returns at most k results, in non-increasing relevance and
\* non-decreasing distance; each result is a distinct neighbour the index
\* returned, results of equal relevance are in the order the index returned
\* them, and no neighbour left out is more relevant than one returned
C2_RankedTopK ==
    Searched =>
        LET ret   == last_call.ret
            pairs == last_call.pairs
        IN  /\ Len(ret) <= last_call.k
            /\ \A i \in 1..(Len(ret) - 1) :
                   /\ ret[i].relevance_score >= ret[i + 1].relevance_score
                   /\ ret[i].distance <= ret[i + 1].distance
            /\ \E pos \in [1..Len(ret) -> 1..Len(pairs)] :
                   /\ \A i, j \in 1..Len(ret) : i < j => pos[i] # pos[j]
                   /\ \A i \in 1..Len(ret) :
                          /\ AcceptedPair(pairs, pos[i])
                          /\ ret[i].text = ListAt(chunks, pairs[pos[i]][1])
                          /\ ret[i].distance = pairs[pos[i]][2]
                          /\ ret[i].relevance_score = RelevanceScore(pairs[pos[i]][2])
                   /\ \A i, j \in 1..Len(ret) :
                          (i < j /\ ret[i].relevance_score = ret[j].relevance_score)
                              => pos[i] < pos[j]
                   /\ \A p \in 1..Len(pairs) :
                          (AcceptedPair(pairs, p) /\ \A i \in 1..Len(ret) : pos[i] # p)
                              => /\ Len(ret) = last_call.k
                                 /\ \A i \in 1..Len(ret) :
                                        ret[i].relevance_score
                                            >= RelevanceScore(pairs[p][2])

\* C2: three neighbours, the nearest returned last and the first two at the
\* same distance, searched with k = 2: the third neighbour comes first, then
\* the first, and the second is dropped
C2_Witness ==
    /\ Searched
    /\ last_call.k = 2
    /\ Len(last_call.pairs) = 3
    /\ last_call.pairs[1][1] = 2
    /\ last_call.pairs[3][2] < last_call.pairs[1][2]
    /\ last_call.pairs[1][2] = last_call.pairs[2][2]
    /\ Len(last_call.ret) = 2
    /\ last_call.ret[1].text = ListAt(chunks, last_call.pairs[3][1])
    /\ last_call.ret[2].text = ListAt(chunks, 2)

\* C3: a search never raises, and it returns the empty list whenever the
\* index is still not loaded (or holds no vectors) once its own lazy
\* initialisation has run, that initialisation returned False, or the
\* encoding or the index search raised
C3_EmptyWhenSearchCannotRun ==
    Searched =>
        /\ ~last_call.raised
        /\ (( \/ IsNone(index)
              \/ (~IsNone(index) /\ index.vectors = <<>>)
              \/ last_call.init = "returned False"
              \/ last_call.step \in {"encode", "index_search"} )
               => last_call.ret = <<>>)

\* C3: the index search raises on a loaded system and the search returns []
C3_Witness ==
    /\ Searched
    /\ last_call.step = "index_search"
    /\ chunks # <<>> /\ metadata # <<>> /\ ~IsNone(index)
    /\ ~last_call.raised
    /\ last_call.ret = <<>>

\* C3 as stated: a search called in a state where the index is not loaded
\* or holds no vectors, or one of whose steps fails, returns the empty list
\* and does not raise
C3_EmptyWhenIndexNotLoaded ==
    Searched =>
        (( \/ last_call.index_was_none
           \/ (~IsNone(index) /\ index.vectors = <<>>)
           \/ last_call.init = "returned False"
           \/ last_call.step \in {"encode", "index_search"} )
             => (~last_call.raised /\ last_call.ret = <<>>))

\* str.strip() leaves nothing of the text
Blank(text) == PyStrip(text) = <<>>

\* C4: query_knowledge_base returns a non-empty, displayable string and
\* does not raise, whatever the state and whatever the generator does
C4_NonEmptyAnswer ==
    Queried => (~last_call.raised /\ ~Blank(last_call.ret))

\* C5: after initialize_system has returned True, the chunks, the metadata
\* and the index in memory have the same number of entries and entry i of
\* each describes the same chunk
C5_LoadedFromOneBuild ==
    (Initialized /\ last_call.ret) =>
        /\ ~IsNone(index)
        /\ Len(chunks) = Len(metadata)
        /\ Len(chunks) = Len(index.vectors)
        /\ \A i \in 1..Len(chunks) :
               /\ metadata[i].content_length = Len(chunks[i])
               /\ index.vectors[i] = Encode(chunks[i])

\* a file initialize_system reads is absent
RequiredFileAbsent ==
    ~index_file.exists \/ ~chunks_file.exists \/ ~metadata_file.exists

\* C6: an initialisation that runs while a required file is absent is
\* reported as a failure: initialize_system returns False, and
\* check_and_initialize returns False without reporting success
C6_MissingFileSurfaced ==
    /\ ((Initialized /\ RequiredFileAbsent) => ~last_call.ret)
    /\ ((Checked /\ ~last_call.dir_existed /\ last_call.reported # "error"
             /\ RequiredFileAbsent)
            => (~last_call.ret /\ last_call.reported # "success"))

(***************************************************************************)
(* The prompt.                                                             *)
(***************************************************************************)
TextsOf(results) == [i \in 1..Len(results) |-> results[i].text]
AboveThreshold(results) ==
    SelectSeq(results, LAMBDA c : c.relevance_score > RelevanceThreshold)

\* C11: the context of the prompt is every search result of relevance above
\* 0.3, in ranked order, or, when there is none, the first 3 results
C11_ContextIsFilteredSubset ==
    p_pc = "done" =>
        p_prompt.information =
            TextsOf(IF AboveThreshold(p_context) # <<>>
                    THEN AboveThreshold(p_context)
                    ELSE PySlice(p_context, 0, 3))

(***************************************************************************)
(* The ordinals of the index.                                              *)
(***************************************************************************)
\* the ordinal names a chunk and a metadata entry
OrdinalInRange(idx) == 0 <= idx /\ idx < IntMin(Len(chunks), Len(metadata))

\* C12: every result of a search carries the text and the metadata of an
\* ordinal the index returned that is at least 0 and below the lengths of
\* the chunk sequence and of the metadata sequence
C12_ResultsFromOrdinalsInRange ==
    Searched =>
        \A i \in 1..Len(last_call.ret) :
            \E p \in 1..Len(last_call.pairs) :
                LET idx == last_call.pairs[p][1]
                IN  /\ OrdinalInRange(idx)
                    /\ last_call.ret[i].distance = last_call.pairs[p][2]
                    /\ last_call.ret[i].text = chunks[idx + 1]
                    /\ last_call.ret[i].url = metadata[idx + 1].url
                    /\ last_call.ret[i].source_entry = metadata[idx + 1].source_entry

(***************************************************************************)
(* The loop of smart_chunking.                                             *)
(***************************************************************************)
\* C13: a call of smart_chunking with chunk_size > overlap >= 0 comes to
\* its end: start grows until it reaches the length of the content
C13_SmallOverlapCallEnds ==
    (sc_chunk_size > sc_overlap /\ sc_overlap >= 0 /\ sc_pc = "loop")
        => <>(sc_pc = "done")

\* C14: every chunk smart_chunking emits has at most chunk_size characters
C14_ChunksAtMostChunkSize ==
    sc_pc \in {"loop", "done", "raised"} =>
        \A i \in 1..Len(sc_chunks) : Len(sc_chunks[i]) <= sc_chunk_size

(***************************************************************************)
(* Failing records of a build.                                             *)
(***************************************************************************)
\* the record is no mapping, or its content is no text
RecordFails(entry) == ~entry.mapping \/ ("content" \in entry.keys /\ ~entry.text)

\* the position in data (from 0) of the k-th record that does not fail
PositionOfKept(data, k) ==
    CHOOSE i \in 0..(Len(data) - 1) :
        /\ ~RecordFails(data[i + 1])
        /\ Cardinality({j \in 0..i : ~RecordFails(data[j + 1])}) = k

\* C15: the chunks and metadata clean_and_chunk returns are those it returns
\* for the data without the failing records, in the same order, each
\* source_entry being the record's position in the full data
C15_FailingRecordsLeaveRestUntouched ==
    cc_pc = "returned" =>
        LET kept == SelectSeq(cc_data, LAMBDA e : ~RecordFails(e))
            rest == clean_and_chunk(kept, cc_chunk_size, cc_overlap)
        IN  /\ cc_chunks = rest.chunks
            /\ cc_metadata =
                  [k \in 1..Len(rest.metadata) |->
                      [rest.metadata[k] EXCEPT
                          !.source_entry = PositionOfKept(cc_data, @ + 1)]]

\* C15: the first record has a content that is no text and the second
\* record gives chunks, which carry source_entry 1
C15_Witness ==
    /\ cc_pc = "returned"
    /\ Len(cc_data) = 2
    /\ cc_data[1].mapping /\ ~cc_data[1].text /\ "content" \in cc_data[1].keys
    /\ ~RecordFails(cc_data[2])
    /\ Len(cc_chunks) >= 1
    /\ \A k \in 1..Len(cc_metadata) : cc_metadata[k].source_entry = 1

(***************************************************************************)
(* Serving.                                                                *)
(***************************************************************************)
\* the model and the index are loaded
Loaded == model # None /\ ~IsNone(index)
ServingCalls == {"enhanced_semantic_search", "query_knowledge_base"}

\* C16: when initialize_system returns True the model and the index are
\* loaded, they stay loaded, and from then on a search or a query leaves the
\* model, the index, the chunks and the metadata as they are and does not
\* run initialize_system
C16_ServingIsReadOnly ==
    [][/\ (last_call'.op = "initialize_system" /\ last_call'.ret) => Loaded'
       /\ Loaded => Loaded'
       /\ (Loaded /\ last_call'.op \in ServingCalls)
             => (UNCHANGED memVars /\ last_call'.init = "not run")]_vars

\* C16: a search on a loaded system returns results, without initialising,
\* while the chunk file on disk is no longer the one that was loaded
C16_Witness ==
    /\ Searched
    /\ last_call.init = "not run"
    /\ last_call.ret # <<>>
    /\ chunks_file.exists
    /\ chunks_file.data.chunks # chunks

\* C17: a call of initialize_system that returns False leaves the index,
\* the metadata and the chunks in memory as they were before the call
C17_InitAllOrNothing ==
    [][(last_call'.op = "initialize_system" /\ ~last_call'.ret)
           => UNCHANGED <<index, metadata, chunks>>]_vars

====
